---------------------------- MODULE Spec2Model ----------------------------
(***************************************************************************)
(* The Ansible module library/commvault.py as a state machine.             *)
(*                                                                         *)
(* One invocation is one run of main(): the "login" branch, or the session *)
(* check, login_token, create_object (the resolver, one action per lookup),*)
(* the choice of the target object and member, the dispatch (call, set or  *)
(* read) and the shaping of the output.  The module-level names that       *)
(* create_object assigns (commcell, client, clients, ...) are the variable *)
(* globals_; they belong to the loaded module, not to the invocation.      *)
(*                                                                         *)
(* The CVPySDK and the Commcell behind it are the environment: whether a   *)
(* lookup hits, whether an object has a member, whether the member is      *)
(* callable, what a call returns and whether it raises are chosen          *)
(* nondeterministically where the code asks.  module.exit_json and         *)
(* module.fail_json end the process (ansible.module_utils.basic), an       *)
(* exception other than SDKException is caught nowhere and ends it too.    *)
(*                                                                         *)
(* Input ranges: operation is "login" in some letter case or the name of   *)
(* an SDK member (not a name that Python's None itself has); args holds    *)
(* plain values, which repr() and eval() carry over unchanged.             *)
(***************************************************************************)
EXTENDS Integers, Sequences, FiniteSets, TLC

VARIABLES
    operation,      \* module.params["operation"]
    entity,         \* module.params["entity"]
    entity_type,    \* module.params["entity_type"]
    commcell_args,  \* module.params["commcell"]
    args,           \* module.params["args"], its values in insertion order
    globals_,       \* the module-level names of lines 208-218
    pc,             \* where main() stands
    commcell_auth,  \* main's local commcell_auth
    obj_name,       \* main's local obj_name
    obj,            \* main's local obj
    attr,           \* main's local attr: "unset", "callable" or "plain"
    output,         \* main's local output (the raw result)
    result,         \* main's local result, the dict handed to exit_json/fail_json
    outcome,        \* how the run ended and with which error
    calls,          \* the SDK calls this invocation has made, in order
    lookups,        \* the answers hasattr() gave this invocation, in order
    invocation      \* which run of main() in this loaded module

vars == <<operation, entity, entity_type, commcell_args, args, globals_, pc,
          commcell_auth, obj_name, obj, attr, output, result, outcome, calls,
          lookups, invocation>>

params == <<operation, entity, entity_type, commcell_args, args>>

locals == <<commcell_auth, obj_name, obj, attr, output, lookups>>

(***************************************************************************)
(* Bounds of the model.                                                    *)
(***************************************************************************)
MaxArgs == 2

MaxInvocations == 2

(***************************************************************************)
(* Python values.                                                          *)
(***************************************************************************)
PyNone == "None"

\* dict.get(key): the value, or None
Get(d, k) == IF k \in DOMAIN d THEN d[k] ELSE PyNone

EmptyDict == [k \in {} |-> ""]

\* An SDK object bound to a module-level name: what it is, which identifier
\* it was fetched by (a collection: its parent's), and the run that bound it.
Node(kind, id, inv) == [kind |-> kind, id |-> id, inv |-> inv]

NoneNode == Node("None", "", 0)

\* A value an operation returns.  mod is type(v).__module__, elems the
\* classes of the elements of a list, data what str()/job_id would show.
Value(cls, mod, data, elems) ==
    [cls |-> cls, mod |-> mod, data |-> data, elems |-> elems]

NoValue == Value("NoneType", "builtins", "", {})

Text(s) == Value("str", "builtins", s, {})

RichClasses == {"Job", "Schedules"}

RawResults ==
    { Value("bool", "builtins", "True", {}),
      Value("list", "builtins", "", {"str"}),
      Value("list", "builtins", "", {"Job"}),
      Value("Job", "cvpysdk.job", "12345", {}),
      Value("Schedules", "cvpysdk.schedules", "", {}) }


(***************************************************************************)
(* The inputs of an invocation.                                            *)
(***************************************************************************)
PathKeys ==
    {"client", "agent", "instance", "backupset", "subclient", "job_id",
     "clientgroup"}

SampleId ==
    [client |-> "C1", agent |-> "File System", instance |-> "I1",
     backupset |-> "defaultBackupSet", subclient |-> "default",
     job_id |-> "12345", clientgroup |-> "G1"]

\* an identifier path: any subset of the recognised keys
Paths == {[k \in S |-> SampleId[k]] : S \in SUBSET PathKeys}

CredKeys == {"webconsole_hostname", "commcell_username", "commcell_password"}

Credentials ==
    [webconsole_hostname |-> "h", commcell_username |-> "u",
     commcell_password |-> "p"]

Entities == Paths \cup {Credentials}

SessionFields == [webconsole_hostname |-> "h", authtoken |-> "t"]

Sessions ==
    {[k \in S |-> SessionFields[k]] : S \in SUBSET DOMAIN SessionFields}

Operations == {"login", "Login", "LOGIN", "backup"}

EntityTypes ==
    {"client", "agent", "instance", "backupset", "subclient", "job",
     "clientgroup", "commcell", "clients", ""}

\* args: up to MaxArgs entries, the values told apart by their position
ArgLists == {[i \in 1..n |-> ToString(i)] : n \in 0..MaxArgs}

\* the narrower input space of the runs that follow one another in one
\* loaded module
ReuseEntities ==
    {[k \in S |-> SampleId[k]] : S \in {{}, {"client"}, {"job_id"}, PathKeys}}
        \cup {Credentials}

ReuseOperations == {"login", "backup"}

ReuseEntityTypes == {"client", "subclient", "job"}

ReuseSessions == {SessionFields, EmptyDict}

(***************************************************************************)
(* The module-level names, all None when the module is loaded.             *)
(***************************************************************************)
GlobalNames ==
    {"commcell", "client", "clients", "agent", "agents", "instance",
     "instances", "backupset", "backupsets", "subclient", "subclients",
     "clientgroups", "clientgroup", "job", "jobs"}

ModuleGlobals == [n \in GlobalNames |-> NoneNode]

NoSession == [webconsole_hostname |-> PyNone, auth_token |-> PyNone]

NoError == [how |-> "running", error |-> "", type |-> "", id |-> ""]

Call(fn, on, id, member, arg) ==
    [fn |-> fn, on |-> on, id |-> id, member |-> member, arg |-> arg]

\* the operation compared as it was written
AsWritten(s) == s

\* str.lower() on the operations of the model
Lower(s) ==
    CASE s = "Login" -> "login"
      [] s = "LOGIN" -> "login"
      [] OTHER -> s

\* "{0}s".format(entity_type)
Plural(t) ==
    CASE t = "client" -> "clients"
      [] t = "agent" -> "agents"
      [] t = "instance" -> "instances"
      [] t = "backupset" -> "backupsets"
      [] t = "subclient" -> "subclients"
      [] t = "job" -> "jobs"
      [] t = "clientgroup" -> "clientgroups"
      [] t = "commcell" -> "commcells"
      [] t = "clients" -> "clientss"
      [] t = "" -> "s"

\* a fail_json that returns to its caller, which stays where it is
FailJsonReturns(error, type, id, res) ==
    /\ outcome' = [how |-> "fail_json", error |-> error, type |-> type, id |-> id]
    /\ result' = ("failed" :> TRUE) @@ res
    /\ pc' = pc

\* An SDKException ends the run through module.fail_json(msg=..., **result).
FailJson(error, type, id, res) ==
    /\ outcome' = [how |-> "fail_json", error |-> error, type |-> type, id |-> id]
    /\ result' = ("failed" :> TRUE) @@ res
    /\ pc' = "exited"

\* Any other exception is caught nowhere: the process ends with a traceback.
Uncaught(error, type, id) ==
    /\ outcome' = [how |-> "uncaught", error |-> error, type |-> type, id |-> id]
    /\ pc' = "exited"

ExitJson(res) ==
    /\ outcome' = [how |-> "exit_json", error |-> "", type |-> "", id |-> ""]
    /\ result' = res
    /\ pc' = "exited"

Fresh(ops, ents, types, sessions) ==
    /\ operation \in ops
    /\ entity \in ents
    /\ entity_type \in types
    /\ commcell_args \in sessions
    /\ args \in ArgLists
    /\ pc = "main"
    /\ commcell_auth = NoSession
    /\ obj_name = ""
    /\ obj = NoneNode
    /\ attr = "unset"
    /\ output = NoValue
    /\ result = EmptyDict
    /\ outcome = NoError
    /\ calls = <<>>
    /\ lookups = <<>>

Init ==
    /\ Fresh(Operations, Entities, EntityTypes, Sessions)
    /\ globals_ = ModuleGlobals
    /\ invocation = 1

(***************************************************************************)
(* main(), the login branch: lines 323-331 and login_username_password.    *)
(***************************************************************************)
MintedToken == "QSDK token"

\* login_username_password(**entity) binds only a dict with exactly its
\* three parameters; anything else is a TypeError before Commcell() is built.
BindsCredentials(e) == DOMAIN e = CredKeys

Login ==
    /\ pc = "main"
    /\ Lower(operation) = "login"
    /\ IF BindsCredentials(entity)
       THEN \E ok \in BOOLEAN :
              /\ calls' = Append(calls,
                     Call("login_username_password", "Commcell",
                          entity["webconsole_hostname"], "",
                          <<entity["commcell_username"],
                            entity["commcell_password"]>>))
              /\ IF ok
                 THEN /\ commcell_auth' =
                            [webconsole_hostname |-> entity["webconsole_hostname"],
                             auth_token |-> MintedToken]
                      /\ ExitJson(("changed" :> TRUE)
                             @@ ("webconsole_hostname" :> entity["webconsole_hostname"])
                             @@ ("authtoken" :> MintedToken) @@ result)
                 ELSE /\ FailJson("AuthError", "", "", result)
                      /\ UNCHANGED commcell_auth
       ELSE /\ Uncaught("TypeError", "", "")
            /\ UNCHANGED <<calls, result, commcell_auth>>
    /\ UNCHANGED <<params, globals_, obj_name, obj, attr, output, lookups,
                   invocation>>

(***************************************************************************)
(* main(), the other branch: the session check of lines 333-340.           *)
(***************************************************************************)
SessionMissing(c) ==
    /\ "webconsole_hostname" \notin DOMAIN c
    /\ "authtoken" \notin DOMAIN c

SessionCheck ==
    /\ pc = "main"
    /\ Lower(operation) # "login"
    /\ IF SessionMissing(commcell_args)
       THEN FailJson("ConfigError", "", "", EmptyDict)
       ELSE /\ pc' = "login_token"
            /\ UNCHANGED <<result, outcome>>
    /\ UNCHANGED <<params, globals_, locals, calls, invocation>>

\* lines 342-344 and login_token: Commcell(webconsole_hostname, authtoken)
LoginToken ==
    /\ pc = "login_token"
    /\ \E ok \in BOOLEAN :
         /\ calls' = Append(calls,
                Call("login_token", "Commcell",
                     Get(commcell_args, "webconsole_hostname"), "",
                     <<Get(commcell_args, "authtoken")>>))
         /\ IF ok
            THEN /\ commcell_auth' =
                       [webconsole_hostname |-> Get(commcell_args, "webconsole_hostname"),
                        auth_token |-> Get(commcell_args, "authtoken")]
                 /\ pc' = "create_object"
                 /\ UNCHANGED <<result, outcome>>
            ELSE /\ FailJson("AuthError", "", "", result)
                 /\ UNCHANGED commcell_auth
    /\ UNCHANGED <<params, globals_, obj_name, obj, attr, output, lookups,
                   invocation>>

(***************************************************************************)
(* create_object, lines 271-303.                                           *)
(***************************************************************************)
\* lines 274-277
CreateObject ==
    /\ pc = "create_object"
    /\ globals_' =
         [globals_ EXCEPT
            !["commcell"] = Node("commcell", commcell_auth.webconsole_hostname, invocation),
            !["clients"] = Node("clients", "", invocation),
            !["clientgroups"] = Node("clientgroups", "", invocation),
            !["jobs"] = Node("jobs", "", invocation)]
    /\ pc' = "client"
    /\ UNCHANGED <<params, locals, result, outcome, calls, invocation>>

\* the collection each lookup goes to
Collection(k) ==
    CASE k = "client" -> "clients"
      [] k = "agent" -> "agents"
      [] k = "instance" -> "instances"
      [] k = "backupset" -> "backupsets"
      [] k = "subclient" -> "subclients"
      [] k = "job_id" -> "jobs"
      [] k = "clientgroup" -> "clientgroups"

\* the name the fetched object is assigned to
BoundName(k) == IF k = "job_id" THEN "job" ELSE k

\* the typo of line 295: subclient = backupset.subclients
ChildrenTypo(k) ==
    CASE k = "client" -> {"agents"}
      [] k = "agent" -> {"instances", "backupsets"}
      [] k = "instance" -> {"subclients"}
      [] k = "backupset" -> {"subclient"}
      [] OTHER -> {}

\* the collections assigned from the fetched object (lines 282, 286-287,
\* 291, 295)
Children(k) ==
    CASE k = "client" -> {"agents"}
      [] k = "agent" -> {"instances", "backupsets"}
      [] k = "instance" -> {"subclients"}
      [] k = "backupset" -> {"subclients"}
      [] OTHER -> {}

\* where create_object goes on after a lookup that hit
AfterFetch(k) ==
    CASE k = "client" -> "agent"
      [] k = "agent" -> "instance"
      [] k = "instance" -> "backupset"
      [] k = "backupset" -> "subclient"
      [] k = "subclient" -> "job_id"
      [] k = "job_id" -> "clientgroup"
      [] k = "clientgroup" -> "target"

\* where create_object goes on when the if of the step is false: a false
\* `if "client"` or `if "agent"` skips the whole block nested in it
AfterSkip(k) ==
    CASE k = "client" -> "job_id"
      [] k = "agent" -> "job_id"
      [] OTHER -> AfterFetch(k)

\* a miss that is noted while create_object goes on with the lookups that
\* do not depend on it
MissContinues(k) ==
    /\ outcome' = [how |-> "fail_json", error |-> "ResolutionError",
                   type |-> BoundName(k), id |-> entity[k]]
    /\ result' = ("failed" :> TRUE) @@ result
    /\ pc' = IF k = "clientgroup" THEN "target"
             ELSE IF k = "job_id" THEN "clientgroup" ELSE "job_id"
    /\ UNCHANGED globals_

\* A lookup that misses raises SDKException, which leaves create_object and
\* is caught at line 346: fail_json.
Miss(k) ==
    /\ FailJson("ResolutionError", BoundName(k), entity[k], result)
    /\ UNCHANGED globals_

Hit(k) ==
    /\ globals_' =
         [n \in GlobalNames |->
            IF n = BoundName(k) \/ n \in Children(k)
            THEN Node(n, entity[k], invocation)
            ELSE globals_[n]]
    /\ pc' = AfterFetch(k)
    /\ UNCHANGED <<result, outcome>>

\* <collection>.get(entity[k])
Fetch(k) ==
    LET coll == globals_[Collection(k)] IN
    IF coll = NoneNode
    THEN /\ Uncaught("AttributeError", BoundName(k), entity[k])
         /\ UNCHANGED <<globals_, calls, result>>
    ELSE \E found \in BOOLEAN :
           /\ calls' = Append(calls,
                  Call("get", coll.kind, coll.id, "", <<entity[k]>>))
           /\ IF found THEN Hit(k) ELSE Miss(k)

Skip(k) ==
    /\ pc' = AfterSkip(k)
    /\ UNCHANGED <<globals_, calls, result, outcome>>

\* the truth value of an SDK collection: None is false, a collection is
\* false when it is empty (it defines __len__)
Truthy(node) == IF node = NoneNode THEN {FALSE} ELSE BOOLEAN

Resolve(k, guard) ==
    /\ pc = k
    /\ IF guard THEN Fetch(k) ELSE Skip(k)
    /\ UNCHANGED <<params, locals, invocation>>

\* lines 279-282
ResolveClient == Resolve("client", "client" \in DOMAIN entity)

\* lines 284-287
ResolveAgent == Resolve("agent", "agent" \in DOMAIN entity)

\* lines 289-291
ResolveInstance == Resolve("instance", "instance" \in DOMAIN entity)

\* lines 293-295
ResolveBackupset == Resolve("backupset", "backupset" \in DOMAIN entity)

\* lines 297-298
ResolveSubclient ==
    \E t \in Truthy(globals_["subclients"]) :
        Resolve("subclient", t /\ "subclient" \in DOMAIN entity)

\* lines 300-301
ResolveJob == Resolve("job_id", "job_id" \in DOMAIN entity)

\* lines 302-303
ResolveClientgroup == Resolve("clientgroup", "clientgroup" \in DOMAIN entity)

(***************************************************************************)
(* main(), lines 350-359: the object and the member the operation is for.  *)
(***************************************************************************)
\* eval(obj_name) finds the module-level names; any other text of the
\* model's entity types is no name at all (NameError, SyntaxError for "")
Defined(name) == name \in GlobalNames

\* what hasattr(o, method) can answer: None has no SDK member
HasAttr(o) == IF o = NoneNode THEN {FALSE} ELSE BOOLEAN

\* no fallback at all
NeverPlural(o, has) == FALSE

\* the fallback taken only for a name that is bound to nothing
PluralIfUnbound(o, has) == o = NoneNode

\* line 354: the plural name is tried when the object lacks the member
UsePlural(o, has) == ~has

\* lines 358-359 with the object chosen: attr = getattr(obj, method)
Choose(name, o, has, asked) ==
    /\ lookups' = Append(asked, [on |-> name, has |-> has])
    /\ IF has
       THEN /\ obj_name' = name
            /\ obj' = o
            /\ \E c \in {"callable", "plain"} : attr' = c
            /\ pc' = "dispatch"
            /\ UNCHANGED outcome
       ELSE /\ Uncaught("AttributeError", name, operation)
            /\ obj_name' = name
            /\ obj' = o
            /\ UNCHANGED attr

ResolveTarget ==
    /\ pc = "target"
    /\ IF ~Defined(entity_type)
       THEN /\ Uncaught("NameError", entity_type, "")
            /\ obj_name' = entity_type
            /\ UNCHANGED <<obj, attr, lookups>>
       ELSE LET o1 == globals_[entity_type] IN
            \E h1 \in HasAttr(o1) :
               IF UsePlural(o1, h1)
               THEN IF ~Defined(Plural(entity_type))
                    THEN /\ Uncaught("NameError", Plural(entity_type), "")
                         /\ obj_name' = Plural(entity_type)
                         /\ obj' = o1
                         /\ lookups' = <<[on |-> entity_type, has |-> h1]>>
                         /\ UNCHANGED attr
                    ELSE LET o2 == globals_[Plural(entity_type)] IN
                         \E h2 \in HasAttr(o2) :
                            Choose(Plural(entity_type), o2, h2,
                                   <<[on |-> entity_type, has |-> h1]>>)
               ELSE Choose(entity_type, o1, h1, <<>>)
    /\ UNCHANGED <<params, globals_, commcell_auth, output, result, calls,
                   invocation>>

(***************************************************************************)
(* main(), lines 361-384: the dispatch.                                    *)
(***************************************************************************)
SuccessMarker == Text("Property set successfully")

\* the last value instead of the first
LastValue(a) == a[Len(a)]

\* list(module.params["args"].values())[0]
FirstValue(a) == a[1]

\* what the statement built at lines 358-371 does when it is run
Statement(callable, a) ==
    IF callable = "callable"
    THEN Call("call", obj.kind, obj.id, operation, a)
    ELSE IF a # <<>>
         THEN Call("set", obj.kind, obj.id, operation, <<FirstValue(a)>>)
         ELSE Call("read", obj.kind, obj.id, operation, <<>>)

Dispatch ==
    /\ pc = "dispatch"
    /\ calls' = Append(calls, Statement(attr, args))
    /\ \E r \in {"ok", "SDKException", "other"} :
         IF r = "SDKException"
         THEN /\ FailJson("DispatchError", obj_name, operation, result)
              /\ UNCHANGED output
         ELSE IF r = "other"
         THEN /\ Uncaught("Exception", obj_name, operation)
              /\ UNCHANGED <<output, result>>
         ELSE IF attr = "plain" /\ args # <<>>
         THEN /\ ExitJson(("output" :> SuccessMarker) @@ result)
              /\ UNCHANGED output
         ELSE /\ \E raw \in RawResults : output' = raw
              /\ pc' = "normalize"
              /\ UNCHANGED <<result, outcome>>
    /\ UNCHANGED <<params, globals_, commcell_auth, obj_name, obj, attr,
                   lookups, invocation>>

(***************************************************************************)
(* main(), lines 386-393: the shape of the output.                         *)
(***************************************************************************)
\* isinstance(v, Job)
IsJob(v) == v.cls = "Job"

\* str(v)
Str(v) == Text(v.cls)

\* lines 386-391
Normalized(v) ==
    IF v.mod \in {"builtins", "__builtin__"}
    THEN v
    ELSE IF IsJob(v) THEN Text(v.data) ELSE Str(v)

Normalize ==
    /\ pc = "normalize"
    /\ ExitJson(("output" :> Normalized(output)) @@ result)
    /\ UNCHANGED <<params, globals_, locals, calls, invocation>>

(***************************************************************************)
(* One invocation in a freshly loaded module.                              *)
(***************************************************************************)
Next ==
    \/ Login
    \/ SessionCheck
    \/ LoginToken
    \/ CreateObject
    \/ ResolveClient
    \/ ResolveAgent
    \/ ResolveInstance
    \/ ResolveBackupset
    \/ ResolveSubclient
    \/ ResolveJob
    \/ ResolveClientgroup
    \/ ResolveTarget
    \/ Dispatch
    \/ Normalize

Spec == Init /\ [][Next]_vars

(***************************************************************************)
(* main() run again in the same loaded module: the parameters and main's   *)
(* locals are new, the module-level names are what the last run left.      *)
(***************************************************************************)
Reinvoke ==
    /\ pc = "exited"
    /\ invocation < MaxInvocations
    /\ invocation' = invocation + 1
    /\ operation' \in ReuseOperations
    /\ entity' \in ReuseEntities
    /\ entity_type' \in ReuseEntityTypes
    /\ commcell_args' \in ReuseSessions
    /\ args' = <<>>
    /\ pc' = "main"
    /\ commcell_auth' = NoSession
    /\ obj_name' = ""
    /\ obj' = NoneNode
    /\ attr' = "unset"
    /\ output' = NoValue
    /\ result' = EmptyDict
    /\ outcome' = NoError
    /\ calls' = <<>>
    /\ lookups' = <<>>
    /\ UNCHANGED globals_

InitReuse ==
    /\ Fresh(ReuseOperations, ReuseEntities, ReuseEntityTypes, ReuseSessions)
    /\ args = <<>>
    /\ globals_ = ModuleGlobals
    /\ invocation = 1

NextReuse == Next \/ Reinvoke

SpecReuse == InitReuse /\ [][NextReuse]_vars

(***************************************************************************)
(* What the properties below speak of.                                     *)
(***************************************************************************)
LoginTexts == {"login", "Login", "LOGIN"}

ChainKeys == {"client", "agent", "instance", "backupset", "subclient"}

DispatchFns == {"call", "set", "read"}

CallsOf(fns) == {i \in DOMAIN calls : calls[i].fn \in fns}

Exited == pc = "exited"

Failed == outcome.how \in {"fail_json", "uncaught"}

Bound(n) == globals_[n] # NoneNode

Present(k) == k \in DOMAIN entity

\* lines 350-359 have run: the object of the operation was looked for
TargetSought == pc \in {"dispatch", "normalize"} \/ (Exited /\ lookups # <<>>)

\* the order in which create_object takes the keys of the path
Order ==
    <<"client", "agent", "instance", "backupset", "subclient", "job_id",
      "clientgroup">>

Position(k) == CHOOSE i \in DOMAIN Order : Order[i] = k

KeyOf(type) == IF type = "job" THEN "job_id" ELSE type

\* a rich domain object, or a list that holds one
ContainsRich(v) == v.cls \in RichClasses \/ v.elems \cap RichClasses # {}

(***************************************************************************)
(* C1.  A non-login invocation whose session lacks webconsole_hostname or  *)
(* authtoken (one of them or both) fails with a ConfigError before token   *)
(* authentication, before any resolver step and before any dispatch.       *)
(* The code lets a session with one of the two fields through: line 336    *)
(* joins the two tests with "and".                                         *)
(***************************************************************************)
C1_MissingFieldIsConfigError ==
    (operation \notin LoginTexts
        /\ DOMAIN commcell_args # {"webconsole_hostname", "authtoken"})
    => /\ calls = <<>>
       /\ lookups = <<>>
       /\ globals_ = ModuleGlobals
       /\ pc \in {"main", "exited"}
       /\ Exited => outcome.error = "ConfigError"

(***************************************************************************)
(* C2.  A login (the operation is "login" in any letter case) never runs   *)
(* the resolver or the dispatcher.  With an entity of exactly the three    *)
(* credential fields it authenticates once with them and answers changed,  *)
(* host and token, or, on an authentication error, failed with no host and *)
(* no token.  With any other entity it ends in a TypeError without having  *)
(* authenticated and without an answer.                                    *)
(***************************************************************************)
C2_LoginBypassesResolverAndDispatcher ==
    operation \in LoginTexts
    => /\ pc \in {"main", "exited"}
       /\ globals_ = ModuleGlobals
       /\ lookups = <<>>
       /\ obj = NoneNode /\ attr = "unset" /\ output = NoValue
       /\ CallsOf({"login_username_password"}) = DOMAIN calls
       /\ Exited =>
            IF DOMAIN entity = CredKeys
            THEN /\ calls = <<Call("login_username_password", "Commcell",
                                   entity["webconsole_hostname"], "",
                                   <<entity["commcell_username"],
                                     entity["commcell_password"]>>)>>
                 /\ outcome.how \in {"exit_json", "fail_json"}
                 /\ outcome.how = "exit_json" =>
                      /\ DOMAIN result = {"changed", "webconsole_hostname", "authtoken"}
                      /\ result["changed"] = TRUE
                      /\ result["webconsole_hostname"] = entity["webconsole_hostname"]
                      /\ result["authtoken"] = commcell_auth.auth_token
                      /\ commcell_auth.auth_token # PyNone
                 /\ outcome.how = "fail_json" =>
                      /\ outcome.error = "AuthError"
                      /\ DOMAIN result = {"failed"}
                      /\ result["failed"] = TRUE
            ELSE /\ calls = <<>>
                 /\ outcome.how = "uncaught"
                 /\ result = EmptyDict

\* C2 as stated: every login performs exactly one credential authentication
C2_EveryLoginAuthenticatesOnce ==
    (operation \in LoginTexts /\ Exited)
    => /\ Len(calls) = 1
       /\ outcome.how \in {"exit_json", "fail_json"}

C2_UppercaseLoginSucceeds ==
    /\ operation = "LOGIN"
    /\ Exited
    /\ outcome.how = "exit_json"
    /\ "authtoken" \in DOMAIN result

(***************************************************************************)
(* C3.  A lookup that misses in the resolver ends the invocation with a    *)
(* ResolutionError naming the resource type and the identifier: the failed *)
(* type stays unbound and no later lookup of create_object is attempted,   *)
(* neither one below the failed node nor the job or client group lookup,   *)
(* and nothing is dispatched.                                              *)
(***************************************************************************)
C3_MissEndsTheResolver ==
    outcome.error = "ResolutionError"
    => LET k == KeyOf(outcome.type)
           last == calls[Len(calls)]
       IN  /\ Exited
           /\ outcome.how = "fail_json"
           /\ result["failed"] = TRUE
           /\ Present(k)
           /\ outcome.id = entity[k]
           /\ last.fn = "get"
           /\ last.on = Collection(k)
           /\ last.arg = <<entity[k]>>
           /\ ~Bound(outcome.type)
           /\ \A k2 \in PathKeys :
                Position(k2) > Position(k)
                => /\ ~Bound(BoundName(k2))
                   /\ \A i \in DOMAIN calls : calls[i].on # Collection(k2)
           /\ CallsOf(DispatchFns) = {}
           /\ lookups = <<>>

\* C3 as stated: after a miss below the client the job and the client group
\* are still fetched
C3_IndependentBranchesStillRun ==
    (Exited /\ outcome.error = "ResolutionError" /\ outcome.type \in ChainKeys)
    => /\ Present("job_id") => \E i \in DOMAIN calls : calls[i].on = "jobs"
       /\ Present("clientgroup") =>
            \E i \in DOMAIN calls : calls[i].on = "clientgroups"

C3_AgentMissWithJobInPath ==
    /\ Exited
    /\ outcome.error = "ResolutionError"
    /\ outcome.type = "agent"
    /\ outcome.id = "File System"
    /\ Present("subclient")
    /\ Present("job_id")

C5_DispatchRule ==
    /\ Cardinality(CallsOf(DispatchFns)) <= 1
    /\ (pc = "normalize" \/ (Exited /\ attr # "unset"))
         => CallsOf(DispatchFns) # {}
    /\ CallsOf(DispatchFns) # {}
       => LET d == calls[Len(calls)] IN
          /\ CallsOf(DispatchFns) = {Len(calls)}
          /\ obj # NoneNode
          /\ d.on = obj.kind /\ d.id = obj.id /\ d.member = operation
          /\ attr \in {"callable", "plain"}
          /\ attr = "callable" => d.fn = "call" /\ d.arg = args
          /\ (attr = "plain" /\ args # <<>>)
               => /\ d.fn = "set"
                  /\ d.arg = <<args[1]>>
                  /\ Exited
                  /\ output = NoValue
                  /\ outcome.how = "exit_json" =>
                       /\ DOMAIN result = {"output"}
                       /\ result["output"] = Text("Property set successfully")
          /\ (attr = "plain" /\ args = <<>>) => d.fn = "read" /\ d.arg = <<>>
          /\ pc = "normalize" => output \in RawResults

C5_SecondValueIgnored ==
    /\ Exited
    /\ attr = "plain"
    /\ Len(args) = 2
    /\ outcome.how = "exit_json"
    /\ calls[Len(calls)].arg = <<"1">>

(***************************************************************************)
(* C6.  The output of a successful non-login invocation never holds a rich *)
(* domain object: a list that holds a job handle is turned into text.      *)
(* The code passes every value whose own type is a builtin through as it   *)
(* is, whatever the list holds.                                            *)
(***************************************************************************)
C6_OutputHoldsNoRichObject ==
    (operation \notin LoginTexts /\ outcome.how = "exit_json")
    => ~ContainsRich(result["output"])

(***************************************************************************)
(* C7.  Descent monotonicity: in a freshly loaded module no name is bound  *)
(* whose own key or whose parent keys are absent from the path; job and    *)
(* client group depend on their own key alone.                             *)
(***************************************************************************)
C7_DescentMonotonicity ==
    /\ (Bound("client") \/ Bound("agents")) => Present("client")
    /\ (Bound("agent") \/ Bound("instances") \/ Bound("backupsets"))
         => Present("client") /\ Present("agent")
    /\ Bound("client") => Present("client")
    /\ Bound("instance") =>
         Present("client") /\ Present("agent") /\ Present("instance")
    /\ Bound("backupset") =>
         Present("client") /\ Present("agent") /\ Present("backupset")
    /\ (Bound("subclient") \/ Bound("subclients"))
         => /\ Present("client") /\ Present("agent")
            /\ Present("instance") \/ Present("backupset")
    /\ Bound("subclient") => Present("subclient")
    /\ Bound("job") => Present("job_id")
    /\ Bound("clientgroup") => Present("clientgroup")
    /\ pc = "target" =>
         /\ Bound("job") <=> Present("job_id")
         /\ Bound("clientgroup") <=> Present("clientgroup")

C7_AgentKeyWithoutClient ==
    /\ pc = "target"
    /\ ~Present("client")
    /\ Present("agent") /\ Present("subclient") /\ Present("job_id")
    /\ ~Bound("agent") /\ ~Bound("subclient")
    /\ Bound("job")

\* what a failed invocation has done and answers
C8_FailureState ==
    Failed
    => /\ Exited
       /\ "output" \notin DOMAIN result
       /\ outcome.how = "fail_json" =>
            DOMAIN result = {"failed"} /\ result["failed"] = TRUE
       /\ outcome.error \in {"ConfigError", "AuthError", "ResolutionError"}
            => CallsOf(DispatchFns) = {} /\ lookups = <<>>
       /\ outcome.error = "DispatchError"
            => CallsOf(DispatchFns) = {Len(calls)}

C9_RedirectWhenMemberMissing ==
    (TargetSought /\ Bound(entity_type))
    => LET first == lookups[1] IN
       /\ first.on = entity_type
       /\ IF first.has
          THEN /\ lookups = <<first>>
               /\ obj_name = entity_type
               /\ obj = globals_[entity_type]
               /\ \A i \in CallsOf(DispatchFns) : calls[i].on = entity_type
          ELSE /\ obj_name = Plural(entity_type)
               /\ IF Len(lookups) = 2 /\ lookups[2].has
                  THEN /\ obj = globals_[Plural(entity_type)]
                       /\ \A i \in CallsOf(DispatchFns) :
                            calls[i].on = Plural(entity_type)
                  ELSE /\ Exited
                       /\ outcome.how = "uncaught"
                       /\ outcome.error \in {"AttributeError", "NameError"}
                       /\ CallsOf(DispatchFns) = {}

\* C9 as stated: a bound node is the target, the collection never is
C9_BoundNodeIsAlwaysTheTarget ==
    (TargetSought /\ Bound(entity_type))
    => /\ obj = globals_[entity_type]
       /\ \A i \in CallsOf(DispatchFns) : calls[i].on = entity_type

C9_RedirectedToCollection ==
    /\ pc = "normalize"
    /\ entity_type = "client"
    /\ Bound("client")
    /\ obj = globals_["clients"]
    /\ calls[Len(calls)].on = "clients"

(***************************************************************************)
(* C10.  Bindings are invocation-scoped: when an invocation dispatches,    *)
(* every bound name was bound by this invocation's resolver, and a type    *)
(* whose key is absent from this invocation's path is unbound.  The code   *)
(* keeps the bindings in module-level names that a later run inherits.     *)
(***************************************************************************)
C10_BindingsBelongToTheInvocation ==
    pc = "dispatch"
    => /\ \A n \in GlobalNames : Bound(n) => globals_[n].inv = invocation
       /\ \A k \in PathKeys : ~Present(k) => ~Bound(BoundName(k))

=============================================================================
